---------------------------- MODULE Spec2Model ----------------------------
(***************************************************************************)
(* A model of the child-young-care core: the multi-provider gateway        *)
(* (agent_core.py, MentalHealthAgent) and the document pipeline            *)
(* (document_processor.py, DocumentProcessor): chunking, the in-memory     *)
(* document store and keyword search, and the RAG system over the two      *)
(* (document_processor.py, RAGSystem).                                     *)
(*                                                                         *)
(* Python values are modelled as follows.  None is the string "None".      *)
(* Provider names, keys, prompts and provider responses are TLA+ strings   *)
(* (concatenated with \o as the f-strings do).  Document texts, chunks     *)
(* and search queries are sequences of one-character strings, so that      *)
(* slicing, lower(), split() and the substring test are computed.          *)
(***************************************************************************)
EXTENDS Integers, Sequences, FiniteSets, TLC

VARIABLES
    agent,                \* st.session_state.agent: the MentalHealthAgent
    ctor_error,           \* what the last MentalHealthAgent(...) raised
    last_op,              \* the call whose result the caller holds, if any
    ret,                  \* what the last gateway call returned or raised
    calls,                \* the _query_* invocations of the last gateway call
    responses,            \* the responses dict of the last query_all_models
    chunk_size,           \* DocumentProcessor.chunk_size
    chunk_overlap,        \* DocumentProcessor.chunk_overlap
    processed_documents,  \* DocumentProcessor.processed_documents
    process_result,       \* what the last process_file returned
    split_text,           \* the argument of the last _split_into_chunks
    split_chunks,         \* what the last _split_into_chunks returned
    loop_start,           \* `start` of a _split_into_chunks that is running
    search_query,         \* the arguments of the last search_documents
    search_top_k,
    results,              \* what the last search_documents returned
    listing,              \* what the last get_all_documents returned
    found_doc,            \* what the last get_document_by_name returned
    searches              \* the search_documents calls of the last
                          \* query_with_context

gateway_vars == <<agent, ctor_error, ret, calls, responses>>
processor_vars == <<chunk_size, chunk_overlap, processed_documents,
                    process_result>>
split_vars == <<split_text, split_chunks, loop_start>>
search_vars == <<search_query, search_top_k, results>>
read_vars == <<listing, found_doc>>
vars == <<agent, ctor_error, last_op, ret, calls, responses, chunk_size,
          chunk_overlap, processed_documents, process_result, split_text,
          split_chunks, loop_start, search_query, search_top_k, results,
          listing, found_doc, searches>>

Min(a, b) == IF a <= b THEN a ELSE b
Max(a, b) == IF a >= b THEN a ELSE b

None == "None"

(***************************************************************************)
(* Python truthiness of an Optional[str]: None and "" are falsy.           *)
(***************************************************************************)
Truthy(s) == s # None /\ s # ""

(***************************************************************************)
(*                       agent_core.py: the gateway                        *)
(***************************************************************************)

\* The credentials a caller may pass: absent, empty, or a key.
Keys == {None, "", "sk-key"}

\* The model_preference values a caller may pass.
Preferences == {None, "", "openai", "claude", "grok", "provider-Z"}

\* The prompts a caller may pass.
Prompts == {"case-1", "case-2"}

\* What one provider round trip does: it returns a text, or raises an
\* exception e whose str(e) is the text.
Outcomes ==
    {[ok |-> TRUE, text |-> "answer"],
     [ok |-> FALSE, text |-> "timeout"],
     [ok |-> FALSE, text |-> "401 Unauthorized"]}

ProviderNames == {"openai", "claude", "grok"}

\* The network as one call sees it: the outcome of a round trip per provider.
Nets == [ProviderNames -> Outcomes]

NoAgent ==
    [built |-> FALSE, available_models |-> <<>>, openai_client |-> None,
     claude_client |-> None, grok_key |-> None]

\* A plausible slip: a key counts as present unless it is None.
AgentInit_is_not_None(openai_key, claude_key, grok_key) ==
    LET m1 == IF openai_key # None THEN <<"openai">> ELSE <<>>
        m2 == IF claude_key # None THEN m1 \o <<"claude">> ELSE m1
        m3 == IF grok_key # None THEN m2 \o <<"grok">> ELSE m2
    IN  IF m3 = <<>>
        THEN [raised |-> TRUE,
              value |-> "At least one AI model API key must be provided",
              agent |-> NoAgent]
        ELSE [raised |-> FALSE, value |-> None,
              agent |-> [built |-> TRUE, available_models |-> m3,
                         openai_client |-> IF openai_key # None THEN "OpenAI" ELSE None,
                         claude_client |-> IF claude_key # None THEN "Anthropic" ELSE None,
                         grok_key |-> IF grok_key # None THEN grok_key ELSE None]]

\* MentalHealthAgent.__init__: the constructed agent, or the ValueError.
AgentInit(openai_key, claude_key, grok_key) ==
    LET m1 == IF Truthy(openai_key) THEN <<"openai">> ELSE <<>>
        m2 == IF Truthy(claude_key) THEN m1 \o <<"claude">> ELSE m1
        m3 == IF Truthy(grok_key) THEN m2 \o <<"grok">> ELSE m2
    IN  IF m3 = <<>>
        THEN [raised |-> TRUE,
              value |-> "At least one AI model API key must be provided",
              agent |-> NoAgent]
        ELSE [raised |-> FALSE, value |-> None,
              agent |-> [built |-> TRUE, available_models |-> m3,
                         openai_client |-> IF Truthy(openai_key) THEN "OpenAI" ELSE None,
                         claude_client |-> IF Truthy(claude_key) THEN "Anthropic" ELSE None,
                         grok_key |-> IF Truthy(grok_key) THEN grok_key ELSE None]]

\* `x in self.available_models`
InSeq(x, s) == \E i \in 1..Len(s) : s[i] = x

Call(provider, user_query) == [provider |-> provider, prompt |-> user_query]

\* A plausible slip: the round trip is made outside the try block.
query_grok_unguarded(a, user_query, net) ==
    [raised |-> ~net["grok"].ok, value |-> net["grok"].text,
     calls |-> <<Call("grok", user_query)>>]

\* _query_openai: the response text, or "OpenAI Error: <str(e)>".  With no
\* client the attribute access on None raises inside the try block.
query_openai(a, user_query, net) ==
    [raised |-> FALSE,
     value |-> IF a.openai_client = None
               THEN "OpenAI Error: " \o "'NoneType' object has no attribute 'chat'"
               ELSE IF net["openai"].ok
               THEN net["openai"].text
               ELSE "OpenAI Error: " \o net["openai"].text,
     calls |-> <<Call("openai", user_query)>>]

\* _query_claude: the response text, or "Claude Error: <str(e)>".
query_claude(a, user_query, net) ==
    [raised |-> FALSE,
     value |-> IF a.claude_client = None
               THEN "Claude Error: " \o "'NoneType' object has no attribute 'messages'"
               ELSE IF net["claude"].ok
               THEN net["claude"].text
               ELSE "Claude Error: " \o net["claude"].text,
     calls |-> <<Call("claude", user_query)>>]

\* _query_grok: the response text, or "Grok Error: <str(e)>".  The request is
\* posted whatever grok_key is (with no key the header reads "Bearer None").
query_grok(a, user_query, net) ==
    [raised |-> FALSE,
     value |-> IF net["grok"].ok
               THEN net["grok"].text
               ELSE "Grok Error: " \o net["grok"].text,
     calls |-> <<Call("grok", user_query)>>]

\* A plausible slip: the preference is used without the membership test.
query_unchecked_preference(a, user_query, model_preference, net) ==
    LET model == IF Truthy(model_preference)
                 THEN model_preference
                 ELSE a.available_models[1]
    IN  IF model = "openai" THEN query_openai(a, user_query, net)
        ELSE IF model = "claude" THEN query_claude(a, user_query, net)
        ELSE IF model = "grok" THEN query_grok(a, user_query, net)
        ELSE [raised |-> FALSE, value |-> "Error: No available models",
              calls |-> <<>>]

\* MentalHealthAgent.query
query(a, user_query, model_preference, net) ==
    LET model == IF Truthy(model_preference)
                    /\ InSeq(model_preference, a.available_models)
                 THEN model_preference
                 ELSE a.available_models[1]
    IN  IF model = "openai" THEN query_openai(a, user_query, net)
        ELSE IF model = "claude" THEN query_claude(a, user_query, net)
        ELSE IF model = "grok" THEN query_grok(a, user_query, net)
        ELSE [raised |-> FALSE, value |-> "Error: No available models",
              calls |-> <<>>]

\* d[key] = value on a Python dict, kept as the sequence of its items in
\* insertion order: an existing key keeps its place.
DictSet(d, key, value) ==
    IF \E i \in 1..Len(d) : d[i].key = key
    THEN [i \in 1..Len(d) |->
             IF d[i].key = key THEN [key |-> key, value |-> value] ELSE d[i]]
    ELSE Append(d, [key |-> key, value |-> value])

\* The key query_all_models files a provider's response under.
ResponseKey(model) ==
    IF model = "openai" THEN "OpenAI GPT"
    ELSE IF model = "claude" THEN "Claude"
    ELSE "Grok"

\* One provider's _query_* method.
QueryModel(a, model, user_query, net) ==
    IF model = "openai" THEN query_openai(a, user_query, net)
    ELSE IF model = "claude" THEN query_claude(a, user_query, net)
    ELSE query_grok(a, user_query, net)

\* The loop of query_all_models over `models`, from position i on: each
\* model is queried inside try, and an exception that escapes the _query_*
\* method files "Error: <str(e)>" under the model's own name.
RECURSIVE QueryAllLoop(_, _, _, _, _, _, _)
QueryAllLoop(a, models, i, user_query, net, resp, log) ==
    IF i > Len(models) THEN [responses |-> resp, calls |-> log]
    ELSE LET model == models[i]
             r == QueryModel(a, model, user_query, net)
             resp2 == IF model \in ProviderNames
                      THEN IF r.raised
                           THEN DictSet(resp, model, "Error: " \o r.value)
                           ELSE DictSet(resp, ResponseKey(model), r.value)
                      ELSE resp
             log2 == IF model \in ProviderNames THEN log \o r.calls ELSE log
         IN  QueryAllLoop(a, models, i + 1, user_query, net, resp2, log2)

\* The combined text of query_all_models, from item i of the dict on.
RECURSIVE FormatResponses(_, _)
FormatResponses(resp, i) ==
    IF i > Len(resp) THEN ""
    ELSE "### " \o resp[i].key \o "\n\n" \o resp[i].value \o "\n\n---\n\n"
         \o FormatResponses(resp, i + 1)

\* The heading of the combined text, without the emoji the source puts after
\* "## ", which a TLA+ string cannot hold.
CombinedHeader == "## Multi-Model Analysis\n\n"

QueryAllOver(a, models, user_query, net) ==
    LET r == QueryAllLoop(a, models, 1, user_query, net, <<>>, <<>>)
    IN  [raised |-> FALSE,
         value |-> CombinedHeader \o FormatResponses(r.responses, 1),
         calls |-> r.calls,
         responses |-> r.responses]

\* A plausible slip: every provider is queried, configured or not.
query_all_models_every(a, user_query, net) ==
    QueryAllOver(a, <<"openai", "claude", "grok">>, user_query, net)

\* MentalHealthAgent.query_all_models
query_all_models(a, user_query, net) ==
    QueryAllOver(a, a.available_models, user_query, net)

NoRet == [raised |-> FALSE, value |-> None]

\* The caller is synchronous: it makes a call when it holds no result, and
\* reads the result of a call before it makes the next one.
Ready == last_op = <<"ready">>

\* app.py "Initialize AI Agent": the agent is replaced when the constructor
\* returns, and kept when it raises.
Configure ==
    /\ Ready
    /\ \E k1 \in Keys, k2 \in Keys, k3 \in Keys :
        LET r == AgentInit(k1, k2, k3)
        IN  /\ last_op' = <<"configure", k1, k2, k3>>
            /\ agent' = IF r.raised THEN agent ELSE r.agent
            /\ ctor_error' = IF r.raised THEN r.value ELSE None
            /\ ret' = NoRet
            /\ calls' = <<>>
            /\ responses' = <<>>
            /\ UNCHANGED <<processor_vars, split_vars, search_vars, read_vars,
                           searches>>

\* agent.query(user_query, model_preference)
Query ==
    /\ Ready
    /\ agent.built
    /\ \E q \in Prompts, pref \in Preferences, net \in Nets :
        LET r == query(agent, q, pref, net)
        IN  /\ last_op' = <<"query", q, pref, net>>
            /\ ret' = [raised |-> r.raised, value |-> r.value]
            /\ calls' = r.calls
            /\ responses' = <<>>
            /\ UNCHANGED <<agent, ctor_error, processor_vars, split_vars,
                           search_vars, read_vars, searches>>

\* agent.query_all_models(user_query)
QueryAllModels ==
    /\ Ready
    /\ agent.built
    /\ \E q \in Prompts, net \in Nets :
        LET r == query_all_models(agent, q, net)
        IN  /\ last_op' = <<"query_all_models", q, net>>
            /\ ret' = [raised |-> r.raised, value |-> r.value]
            /\ calls' = r.calls
            /\ responses' = r.responses
            /\ UNCHANGED <<agent, ctor_error, processor_vars, split_vars,
                           search_vars, read_vars, searches>>

(***************************************************************************)
(*              document_processor.py: the document pipeline               *)
(***************************************************************************)

\* Python text[i:j] for 0 <= i: the characters at offsets i .. j-1 that exist.
Slice(s, i, j) == SubSeq(s, i + 1, Min(j, Len(s)))

\* Python text[i:j] for any integers i and j: a negative index counts from
\* the end of the text, and both are clipped to 0 .. len(text).
PySlice(s, i, j) ==
    LET n == Len(s)
        lo == IF i < 0 THEN Max(n + i, 0) ELSE Min(i, n)
        hi == IF j < 0 THEN Max(n + j, 0) ELSE Min(j, n)
    IN  SubSeq(s, lo + 1, hi)

\* DocumentProcessor.__init__: the two arguments are stored as they come;
\* nothing is raised.
ProcessorInit(size, overlap) ==
    [raised |-> FALSE, chunk_size |-> size, chunk_overlap |-> overlap]

\* str.lower() on the characters the model uses.
LowerChar(c) ==
    CASE c = "A" -> "a"
      [] c = "B" -> "b"
      [] c = "D" -> "d"
      [] c = "M" -> "m"
      [] OTHER -> c

Lower(s) == [i \in 1..Len(s) |-> LowerChar(s[i])]

IsSpace(c) == c \in {" ", "\n", "\t"}

\* str.split(): the maximal runs of non-whitespace characters, in order.
\* `word` is the run being read; it is emitted at whitespace and at the end.
RECURSIVE SplitWords(_, _, _, _)
SplitWords(s, i, word, words) ==
    IF i > Len(s)
    THEN IF word = <<>> THEN words ELSE Append(words, word)
    ELSE IF IsSpace(s[i])
    THEN SplitWords(s, i + 1, <<>>,
                    IF word = <<>> THEN words ELSE Append(words, word))
    ELSE SplitWords(s, i + 1, Append(word, s[i]), words)

PySplit(s) == SplitWords(s, 1, <<>>, <<>>)

\* str.split(sep) for a one-character sep: the pieces between the
\* separators, empty pieces included.
RECURSIVE SplitOnLoop(_, _, _, _, _)
SplitOnLoop(s, sep, i, piece, pieces) ==
    IF i > Len(s) THEN Append(pieces, piece)
    ELSE IF s[i] = sep
    THEN SplitOnLoop(s, sep, i + 1, <<>>, Append(pieces, piece))
    ELSE SplitOnLoop(s, sep, i + 1, Append(piece, s[i]), pieces)

SplitOn(s, sep) == SplitOnLoop(s, sep, 1, <<>>, <<>>)

\* `word in text` on strings: word occurs as a contiguous substring.
IsSubstring(word, text) ==
    \E i \in 0..(Len(text) - Len(word)) :
        SubSeq(text, i + 1, i + Len(word)) = word

\* The loop of _split_into_chunks from offset `start` on.
RECURSIVE SplitLoop(_, _, _, _, _)
SplitLoop(text, size, overlap, start, chunks) ==
    IF start < Len(text)
    THEN SplitLoop(text, size, overlap, start + size - overlap,
                   Append(chunks, Slice(text, start, start + size)))
    ELSE chunks

\* A plausible slip: the loop stops once a chunk reaches the end of the text.
RECURSIVE SplitLoopToEnd(_, _, _, _, _)
SplitLoopToEnd(text, size, overlap, start, chunks) ==
    IF start < Len(text)
    THEN IF start + size >= Len(text)
         THEN Append(chunks, Slice(text, start, start + size))
         ELSE SplitLoopToEnd(text, size, overlap, start + size - overlap,
                             Append(chunks, Slice(text, start, start + size)))
    ELSE chunks

split_stop_at_end(text, size, overlap) ==
    SplitLoopToEnd(text, size, overlap, 0, <<>>)

\* A plausible slip: the offset advances by the whole window.
split_no_overlap(text, size, overlap) ==
    SplitLoop(text, size, 0, 0, <<>>)

\* A plausible slip: the window is cut at chunk_size - chunk_overlap.
RECURSIVE SplitLoopShort(_, _, _, _, _)
SplitLoopShort(text, size, overlap, start, chunks) ==
    IF start < Len(text)
    THEN SplitLoopShort(text, size, overlap, start + size - overlap,
                        Append(chunks, Slice(text, start, start + size - overlap)))
    ELSE chunks

split_short_window(text, size, overlap) ==
    SplitLoopShort(text, size, overlap, 0, <<>>)

\* DocumentProcessor._split_into_chunks
split_into_chunks(text, size, overlap) ==
    SplitLoop(text, size, overlap, 0, <<>>)

\* The "..." of a truncated preview.
Ellipsis == <<".", ".", ".">>

\* The length process_file cuts its preview at.
ResultPreviewLen == 500

\* All the texts of the units of a file, each followed by `tail`.
RECURSIVE JoinUnits(_, _, _)
JoinUnits(units, i, tail) ==
    IF i > Len(units) THEN <<>>
    ELSE units[i] \o tail \o JoinUnits(units, i + 1, tail)

\* _extract_from_pdf, _extract_from_docx, _extract_from_text: the text of
\* the file, or the exception the reader or the decoder raises.  A PDF's
\* units are its pages and a DOCX's its paragraphs, each followed by a
\* newline; a text file decodes to its content as it is.
Extract(file_extension, data) ==
    IF ~data.ok THEN [raised |-> TRUE, value |-> data.error]
    ELSE IF file_extension \in {<<"p", "d", "f">>, <<"d", "o", "c", "x">>}
    THEN [raised |-> FALSE, value |-> JoinUnits(data.units, 1, <<"\n">>)]
    ELSE [raised |-> FALSE, value |-> JoinUnits(data.units, 1, <<>>)]

SupportedExtensions ==
    {<<"p", "d", "f">>, <<"d", "o", "c", "x">>, <<"t", "x", "t">>, <<"m", "d">>}

\* uploaded_file.name.split('.')[-1].lower()
FileExtension(name) ==
    LET pieces == SplitOn(name, ".") IN Lower(pieces[Len(pieces)])

\* A plausible slip: the document is appended before its text is extracted,
\* so a file whose extraction raises leaves an entry without text behind.
process_file_append_first(docs, uploaded_file, size, overlap) ==
    LET file_extension == FileExtension(uploaded_file.name)
        x == Extract(file_extension, uploaded_file.data)
        text == IF x.raised THEN <<>> ELSE x.value
        chunks == SplitLoop(text, size, overlap, 0, <<>>)
        doc_info == [filename |-> uploaded_file.name,
                     file_type |-> file_extension,
                     text |-> text,
                     chunks |-> Len(chunks),
                     chunk_list |-> chunks]
    IN  IF file_extension \notin SupportedExtensions
        THEN [docs |-> docs,
              result |-> [success |-> FALSE,
                          error |-> <<"Unsupported file type: ">> \o file_extension]]
        ELSE IF x.raised
        THEN [docs |-> Append(docs, doc_info),
              result |-> [success |-> FALSE, error |-> x.value]]
        ELSE [docs |-> Append(docs, doc_info),
              result |-> [success |-> TRUE,
                          filename |-> uploaded_file.name,
                          chunks |-> Len(chunks),
                          preview |-> text]]

\* A plausible slip: the store is kept by filename, so a document takes the
\* place of an earlier one of the same name.
process_file_by_name(docs, uploaded_file, size, overlap) ==
    LET file_extension == FileExtension(uploaded_file.name)
        x == Extract(file_extension, uploaded_file.data)
        text == x.value
        chunks == SplitLoop(text, size, overlap, 0, <<>>)
        doc_info == [filename |-> uploaded_file.name,
                     file_type |-> file_extension,
                     text |-> text,
                     chunks |-> Len(chunks),
                     chunk_list |-> chunks]
        has_other_name(doc) == doc.filename # uploaded_file.name
    IN  IF file_extension \notin SupportedExtensions
        THEN [docs |-> docs,
              result |-> [success |-> FALSE,
                          error |-> <<"Unsupported file type: ">> \o file_extension]]
        ELSE IF x.raised
        THEN [docs |-> docs,
              result |-> [success |-> FALSE, error |-> x.value]]
        ELSE [docs |-> Append(SelectSeq(docs, has_other_name), doc_info),
              result |-> [success |-> TRUE,
                          filename |-> uploaded_file.name,
                          chunks |-> Len(chunks),
                          preview |-> text]]

\* DocumentProcessor.process_file: the returned dict and the store after it.
process_file(docs, uploaded_file, size, overlap) ==
    LET file_extension == FileExtension(uploaded_file.name)
        x == Extract(file_extension, uploaded_file.data)
        text == x.value
        chunks == split_into_chunks(text, size, overlap)
        doc_info == [filename |-> uploaded_file.name,
                     file_type |-> file_extension,
                     text |-> text,
                     chunks |-> Len(chunks),
                     chunk_list |-> chunks]
    IN  IF file_extension \notin SupportedExtensions
        THEN [docs |-> docs,
              result |-> [success |-> FALSE,
                          error |-> <<"Unsupported file type: ">> \o file_extension]]
        ELSE IF x.raised
        THEN [docs |-> docs,
              result |-> [success |-> FALSE, error |-> x.value]]
        ELSE [docs |-> Append(docs, doc_info),
              result |-> [success |-> TRUE,
                          filename |-> uploaded_file.name,
                          chunks |-> Len(chunks),
                          preview |-> IF Len(text) > ResultPreviewLen
                                      THEN Slice(text, 0, ResultPreviewLen) \o Ellipsis
                                      ELSE text]]

\* The number of places of text at which word occurs.
Occurrences(word, text) ==
    Cardinality({i \in 0..(Len(text) - Len(word)) :
                    SubSeq(text, i + 1, i + Len(word)) = word})

RECURSIVE SumOccurrences(_, _, _)
SumOccurrences(words, i, text) ==
    IF i > Len(words) THEN 0
    ELSE Occurrences(words[i], text) + SumOccurrences(words, i + 1, text)

\* A plausible slip: every occurrence of a word counts.
relevance_by_occurrences(query_lower, chunk) ==
    SumOccurrences(PySplit(query_lower), 1, Lower(chunk))

\* relevance_score: sum(1 for word in query_lower.split() if word in chunk.lower())
relevance_score(query_lower, chunk) ==
    LET words == PySplit(query_lower)
    IN  Cardinality({i \in 1..Len(words) : IsSubstring(words[i], Lower(chunk))})

\* A plausible slip: the test reads >= 0.
IsRelevant_or_zero(score) == score >= 0

\* `if relevance_score > 0`
IsRelevant(score) == score > 0

\* The inner loop of search_documents over one document's chunk_list, from
\* chunk i (Python index i - 1) on.
RECURSIVE ChunkHits(_, _, _)
ChunkHits(doc, query_lower, i) ==
    IF i > Len(doc.chunk_list) THEN <<>>
    ELSE LET chunk == doc.chunk_list[i]
             score == relevance_score(query_lower, chunk)
         IN  (IF IsRelevant(score)
              THEN <<[filename |-> doc.filename, chunk_index |-> i - 1,
                      content |-> chunk, relevance |-> score]>>
              ELSE <<>>)
             \o ChunkHits(doc, query_lower, i + 1)

\* The outer loop of search_documents over the stored documents.
RECURSIVE DocHits(_, _, _)
DocHits(docs, query_lower, d) ==
    IF d > Len(docs) THEN <<>>
    ELSE ChunkHits(docs[d], query_lower, 1) \o DocHits(docs, query_lower, d + 1)

\* One step of a stable descending sort: x goes after every element whose
\* relevance is at least its own.
InsertDescending(sorted, x) ==
    LET n == Cardinality({j \in 1..Len(sorted) : sorted[j].relevance >= x.relevance})
    IN  SubSeq(sorted, 1, n) \o <<x>> \o SubSeq(sorted, n + 1, Len(sorted))

RECURSIVE SortLoop(_, _, _)
SortLoop(rs, i, sorted) ==
    IF i > Len(rs) THEN sorted
    ELSE SortLoop(rs, i + 1, InsertDescending(sorted, rs[i]))

\* A plausible slip: an ascending sort that is then reversed, which turns
\* equal elements around.
InsertBeforeEqual(sorted, x) ==
    LET n == Cardinality({j \in 1..Len(sorted) : sorted[j].relevance > x.relevance})
    IN  SubSeq(sorted, 1, n) \o <<x>> \o SubSeq(sorted, n + 1, Len(sorted))

RECURSIVE SortLoopReversed(_, _, _)
SortLoopReversed(rs, i, sorted) ==
    IF i > Len(rs) THEN sorted
    ELSE SortLoopReversed(rs, i + 1, InsertBeforeEqual(sorted, rs[i]))

sort_then_reverse(rs) == SortLoopReversed(rs, 1, <<>>)

\* results.sort(key=lambda x: x['relevance'], reverse=True): list.sort is
\* stable, and with reverse=True equal elements keep their order.
sort_by_relevance(rs) == SortLoop(rs, 1, <<>>)

\* DocumentProcessor.search_documents, for top_k >= 0
search_documents(docs, query_text, top_k) ==
    LET query_lower == Lower(query_text)
        found == DocHits(docs, query_lower, 1)
    IN  Slice(sort_by_relevance(found), 0, top_k)

\* The length get_all_documents cuts its preview at.
ListPreviewLen == 200

\* DocumentProcessor.get_all_documents: one dict per stored document, whose
\* preview is doc['text'][:200] + "...".
get_all_documents(docs) ==
    [i \in 1..Len(docs) |->
        [filename |-> docs[i].filename,
         file_type |-> docs[i].file_type,
         chunks |-> docs[i].chunks,
         preview |-> Slice(docs[i].text, 0, ListPreviewLen) \o Ellipsis]]

\* An Optional[Dict]: None, or a document.
NoDocument == [is_none |-> TRUE]

SomeDocument(doc) == [is_none |-> FALSE, doc |-> doc]

\* The loop of get_document_by_name from document i on.
RECURSIVE FindLoop(_, _, _)
FindLoop(docs, filename, i) ==
    IF i > Len(docs) THEN NoDocument
    ELSE IF docs[i].filename = filename THEN SomeDocument(docs[i])
    ELSE FindLoop(docs, filename, i + 1)

\* DocumentProcessor.get_document_by_name
get_document_by_name(docs, filename) == FindLoop(docs, filename, 1)

\* A plausible slip: the newest document is removed, not all of them.
clear_drops_newest(docs) == SubSeq(docs, 1, Len(docs) - 1)

\* DocumentProcessor.clear_documents: the store after it.
clear_documents(docs) == <<>>

\* str(n) for n >= 0, as an f-string renders an int.
Digit(d) ==
    CASE d = 0 -> "0" [] d = 1 -> "1" [] d = 2 -> "2" [] d = 3 -> "3"
      [] d = 4 -> "4" [] d = 5 -> "5" [] d = 6 -> "6" [] d = 7 -> "7"
      [] d = 8 -> "8" [] d = 9 -> "9"

RECURSIVE Str(_)
Str(n) == IF n < 10 THEN Digit(n) ELSE Str(n \div 10) \o Digit(n % 10)

\* The strings query_with_context puts around the chunks and the query.  A
\* composed prompt is the sequence of its pieces: these strings, and the
\* characters of the filenames, the chunks and the query.
ContextHeader == <<"Relevant information from uploaded documents:\n\n">>

QuestionLabel == <<"\nUser Question: ">>

Instruction ==
    <<"\n\nPlease answer the question using the provided context from the documents when relevant, and supplement with your knowledge of child and adolescent mental health.">>

\* The loop of query_with_context over enumerate(relevant_docs, 1), from
\* the i-th on: what it adds to context.
RECURSIVE ContextLoop(_, _)
ContextLoop(relevant_docs, i) ==
    IF i > Len(relevant_docs) THEN <<>>
    ELSE <<"[Source ", Str(i), ": ">> \o relevant_docs[i].filename \o <<"]\n">>
            \o relevant_docs[i].content \o <<"\n\n">>
            \o ContextLoop(relevant_docs, i + 1)

SearchCall(query_text, top_k, found) ==
    [query_text |-> query_text, top_k |-> top_k, results |-> found]

\* A plausible slip: with no relevant chunk the provider is not asked.
query_with_context_unless_empty(docs, a, query_text, top_k, net) ==
    LET relevant_docs == search_documents(docs, query_text, top_k)
        context == ContextHeader \o ContextLoop(relevant_docs, 1)
        full_query == context \o QuestionLabel \o query_text \o Instruction
        r == query(a, full_query, None, net)
    IN  IF relevant_docs = <<>>
        THEN [raised |-> FALSE, value |-> "No relevant documents found.",
              calls |-> <<>>,
              searches |-> <<SearchCall(query_text, top_k, relevant_docs)>>]
        ELSE [raised |-> r.raised, value |-> r.value, calls |-> r.calls,
              searches |-> <<SearchCall(query_text, top_k, relevant_docs)>>]

\* RAGSystem.query_with_context over a processor that holds docs and an
\* agent a: what it returns, the provider calls and the searches it makes.
query_with_context(docs, a, query_text, top_k, net) ==
    LET relevant_docs == search_documents(docs, query_text, top_k)
        context == ContextHeader \o ContextLoop(relevant_docs, 1)
        full_query == context \o QuestionLabel \o query_text \o Instruction
        r == query(a, full_query, None, net)
    IN  [raised |-> r.raised, value |-> r.value, calls |-> r.calls,
         searches |-> <<SearchCall(query_text, top_k, relevant_docs)>>]

(***************************************************************************)
(*                        Inputs and their bounds                          *)
(***************************************************************************)

\* DocumentProcessor.__init__'s defaults.
DefaultChunkSize == 1000
DefaultChunkOverlap == 200

\* The chunker is run on every text of at most MaxTextLen characters under
\* every configuration with 0 <= overlap < chunk_size <= MaxChunkSize, and
\* on one text of ScenarioLen characters under the default configuration.
MaxTextLen == 6
MaxChunkSize == 3
ScenarioLen == 2500

\* The store is run with windows of StoreChunkSize characters overlapping
\* by StoreChunkOverlap, on at most MaxDocs documents, and searched with queries of at most MaxQueryLen characters
\* for at most MaxTopK results.
StoreChunkSize == 2
StoreChunkOverlap == 1
MaxDocs == 2
MaxQueryLen == 3
MaxTopK == 2

\* Every sequence over `alphabet` of at most n elements.
SeqsUpTo(alphabet, n) == UNION {[1..k -> alphabet] : k \in 0..n}

ChunkerConfigs ==
    {c \in (1..MaxChunkSize) \X (0..MaxChunkSize) : c[2] < c[1]}
        \cup {<<DefaultChunkSize, DefaultChunkOverlap>>}

\* Every chunk_size of 1 .. MaxChunkSize with every chunk_overlap of
\* 0 .. MaxChunkSize, those with chunk_overlap >= chunk_size included.
AnyConfigs == (1..MaxChunkSize) \X (0..MaxChunkSize)

\* A split that is run step by step is followed for at most MaxLoopSteps
\* iterations, which is more than any text of the model has characters.
MaxLoopSteps == MaxTextLen + 2

ScenarioText == [i \in 1..ScenarioLen |-> IF i % 2 = 1 THEN "a" ELSE "b"]

\* The texts the chunker is given under a configuration.
ChunkerTexts(size) ==
    IF size = DefaultChunkSize
    THEN {ScenarioText, <<>>, <<"a", "b">>}
    ELSE SeqsUpTo({"a", "b"}, MaxTextLen)

Queries == SeqsUpTo({"a", "B", " "}, MaxQueryLen)

\* The files a caller uploads.  Under windows of 2 overlapping by 1 the
\* chunks of a.txt hold "a" twice, once and not at all; n.MD holds it once
\* and comes under an upper-case extension; b.txt shares its name with no
\* other file and a.txt comes with two contents; e.txt is empty; the PDF
\* has two pages and the DOCX one paragraph in upper case.  Four files
\* cannot be ingested: one is not UTF-8, one is no PDF, and two are of no
\* supported type.
Readable(units) == [ok |-> TRUE, units |-> units]

Unreadable(error) == [ok |-> FALSE, error |-> <<error>>]

UploadedFiles ==
    {[name |-> <<"a", ".", "t", "x", "t">>, data |-> Readable(<<<<"a", "a", "B">>>>)],
     [name |-> <<"a", ".", "t", "x", "t">>, data |-> Readable(<<<<"B">>>>)],
     [name |-> <<"b", ".", "t", "x", "t">>, data |-> Readable(<<<<"B", " ", "a">>>>)],
     [name |-> <<"e", ".", "t", "x", "t">>, data |-> Readable(<<<<>>>>)],
     [name |-> <<"n", ".", "M", "D">>, data |-> Readable(<<<<"a">>>>)],
     [name |-> <<"p", ".", "p", "d", "f">>, data |-> Readable(<<<<"B">>, <<"a">>>>)],
     [name |-> <<"w", ".", "d", "o", "c", "x">>, data |-> Readable(<<<<"A">>>>)],
     [name |-> <<"u", ".", "t", "x", "t">>,
      data |-> Unreadable("'utf-8' codec can't decode byte 0xff")],
     [name |-> <<"q", ".", "p", "d", "f">>, data |-> Unreadable("EOF marker not found")],
     [name |-> <<"x", ".", "e", "x", "e">>, data |-> Readable(<<<<"a">>>>)],
     [name |-> <<"r", "e", "a", "d", "m", "e">>, data |-> Readable(<<<<"a">>>>)]}

\* The names a caller looks documents up by: those of the files it
\* uploads, and one that no file has.
Filenames ==
    {uploaded_file.name : uploaded_file \in UploadedFiles}
        \cup {<<"z", ".", "t", "x", "t">>}

\* query_with_context's default top_k.
DefaultTopK == 3

\* The questions put to the RAG system: one term that stored chunks hold,
\* two terms, and a term no chunk holds.
RagQueries == {<<"a">>, <<"B", " ", "a">>, <<"d">>}

\* The networks a RAG call meets: every outcome, the same for the three
\* providers.
RagNets == {[p \in ProviderNames |-> outcome] : outcome \in Outcomes}

(***************************************************************************)
(*                               Actions                                   *)
(***************************************************************************)

NoResult == [success |-> FALSE, error |-> <<>>]

IdleGateway ==
    /\ agent = NoAgent
    /\ ctor_error = None
    /\ ret = NoRet
    /\ calls = <<>>
    /\ responses = <<>>
    /\ searches = <<>>

IdleProcessor ==
    /\ processed_documents = <<>>
    /\ process_result = NoResult
    /\ listing = <<>>
    /\ found_doc = NoDocument

IdleSplit ==
    /\ split_text = <<>>
    /\ split_chunks = <<>>
    /\ loop_start = 0

IdleSearch ==
    /\ search_query = <<>>
    /\ search_top_k = 0
    /\ results = <<>>

\* processor._split_into_chunks(text)
SplitIntoChunks ==
    /\ Ready
    /\ \E text \in ChunkerTexts(chunk_size) :
        /\ last_op' = <<"split">>
        /\ split_text' = text
        /\ split_chunks' = split_into_chunks(text, chunk_size, chunk_overlap)
        /\ UNCHANGED <<gateway_vars, processor_vars, search_vars, loop_start,
                       read_vars, searches>>

\* processor._split_into_chunks(text), step by step: chunks = [], start = 0.
SplitStart ==
    /\ Ready
    /\ \E text \in SeqsUpTo({"a", "b"}, MaxTextLen) :
        /\ last_op' = <<"while">>
        /\ split_text' = text
        /\ split_chunks' = <<>>
        /\ loop_start' = 0
        /\ UNCHANGED <<gateway_vars, processor_vars, search_vars, read_vars,
                       searches>>

\* One iteration of `while start < len(text)`.
SplitStep ==
    /\ last_op = <<"while">>
    /\ loop_start < Len(split_text)
    /\ Len(split_chunks) < MaxLoopSteps
    /\ LET end == loop_start + chunk_size
       IN  split_chunks' = Append(split_chunks, PySlice(split_text, loop_start, end))
    /\ loop_start' = loop_start + chunk_size - chunk_overlap
    /\ UNCHANGED <<last_op, split_text, gateway_vars, processor_vars,
                   search_vars, read_vars, searches>>

\* The loop condition fails: return chunks.
SplitExit ==
    /\ last_op = <<"while">>
    /\ ~(loop_start < Len(split_text))
    /\ last_op' = <<"split">>
    /\ UNCHANGED <<split_vars, gateway_vars, processor_vars, search_vars,
                   read_vars, searches>>

\* processor.process_file(uploaded_file)
ProcessFile ==
    /\ Ready
    /\ Len(processed_documents) < MaxDocs
    /\ \E uploaded_file \in UploadedFiles :
        LET r == process_file(processed_documents, uploaded_file,
                              chunk_size, chunk_overlap)
        IN  /\ last_op' = <<"process_file", uploaded_file>>
            /\ processed_documents' = r.docs
            /\ process_result' = r.result
            /\ search_query' = <<>>
            /\ search_top_k' = 0
            /\ results' = <<>>
            /\ UNCHANGED <<gateway_vars, chunk_size, chunk_overlap, split_vars,
                           read_vars, searches>>

\* processor.search_documents(query, top_k)
SearchDocuments ==
    /\ Ready
    /\ \E query_text \in Queries, top_k \in 1..MaxTopK :
        /\ last_op' = <<"search">>
        /\ search_query' = query_text
        /\ search_top_k' = top_k
        /\ results' = search_documents(processed_documents, query_text, top_k)
        /\ process_result' = NoResult
        /\ UNCHANGED <<gateway_vars, chunk_size, chunk_overlap,
                       processed_documents, split_vars, read_vars, searches>>

\* processor.get_all_documents()
GetAllDocuments ==
    /\ Ready
    /\ last_op' = <<"get_all_documents">>
    /\ listing' = get_all_documents(processed_documents)
    /\ UNCHANGED <<gateway_vars, processor_vars, split_vars, search_vars,
                   found_doc, searches>>

\* processor.get_document_by_name(filename)
GetDocumentByName ==
    /\ Ready
    /\ \E filename \in Filenames :
        /\ last_op' = <<"get_document_by_name", filename>>
        /\ found_doc' = get_document_by_name(processed_documents, filename)
        /\ UNCHANGED <<gateway_vars, processor_vars, split_vars, search_vars,
                       listing, searches>>

\* processor.clear_documents(), on a store of Len(processed_documents)
\* documents.
ClearDocuments ==
    /\ Ready
    /\ last_op' = <<"clear", Len(processed_documents)>>
    /\ processed_documents' = clear_documents(processed_documents)
    /\ process_result' = NoResult
    /\ search_query' = <<>>
    /\ search_top_k' = 0
    /\ results' = <<>>
    /\ UNCHANGED <<gateway_vars, chunk_size, chunk_overlap, split_vars,
                   read_vars, searches>>

\* rag.query_with_context(query, top_k), top_k given or left to its default
QueryWithContext ==
    /\ Ready
    /\ agent.built
    /\ \E query_text \in RagQueries, top_k \in (1..MaxTopK) \cup {DefaultTopK},
          net \in RagNets :
        LET r == query_with_context(processed_documents, agent, query_text,
                                    top_k, net)
        IN  /\ last_op' = <<"query_with_context", query_text, top_k, net>>
            /\ ret' = [raised |-> r.raised, value |-> r.value]
            /\ calls' = r.calls
            /\ searches' = r.searches
            /\ UNCHANGED <<agent, ctor_error, responses, processor_vars,
                           split_vars, search_vars, read_vars>>

\* The caller takes the result of its call.
Return ==
    /\ ~Ready
    /\ last_op[1] # "while"
    /\ last_op' = <<"ready">>
    /\ ctor_error' = None
    /\ ret' = NoRet
    /\ calls' = <<>>
    /\ responses' = <<>>
    /\ process_result' = NoResult
    /\ split_text' = <<>>
    /\ split_chunks' = <<>>
    /\ search_query' = <<>>
    /\ search_top_k' = 0
    /\ results' = <<>>
    /\ loop_start' = 0
    /\ listing' = <<>>
    /\ found_doc' = NoDocument
    /\ searches' = <<>>
    /\ UNCHANGED <<agent, chunk_size, chunk_overlap, processed_documents>>

(***************************************************************************)
(*                            Specifications                               *)
(***************************************************************************)

\* The gateway: an application that has built no agent yet.
InitGatewaySpec ==
    /\ Ready
    /\ IdleGateway
    /\ chunk_size = DefaultChunkSize
    /\ chunk_overlap = DefaultChunkOverlap
    /\ IdleProcessor /\ IdleSplit /\ IdleSearch

NextGateway == Configure \/ Query \/ QueryAllModels \/ Return

SpecGateway == InitGatewaySpec /\ [][NextGateway]_vars

\* The chunker: a DocumentProcessor(chunk_size, chunk_overlap) of a valid
\* configuration, whose _split_into_chunks is applied to texts.
InitChunker ==
    /\ Ready
    /\ IdleGateway
    /\ \E c \in ChunkerConfigs : chunk_size = c[1] /\ chunk_overlap = c[2]
    /\ IdleProcessor /\ IdleSplit /\ IdleSearch

NextChunker == SplitIntoChunks \/ Return

SpecChunker == InitChunker /\ [][NextChunker]_vars

\* The chunking loop: a DocumentProcessor(chunk_size, chunk_overlap) of any
\* configuration the constructor takes, whose _split_into_chunks is run one
\* iteration at a time.
InitLoop ==
    /\ Ready
    /\ IdleGateway
    /\ \E c \in AnyConfigs :
          LET processor == ProcessorInit(c[1], c[2])
          IN  /\ ~processor.raised
              /\ chunk_size = processor.chunk_size
              /\ chunk_overlap = processor.chunk_overlap
    /\ IdleProcessor /\ IdleSplit /\ IdleSearch

NextLoop == SplitStart \/ SplitStep \/ SplitExit \/ Return

SpecLoop == InitLoop /\ [][NextLoop]_vars

\* The RAG system: a RAGSystem over an empty DocumentProcessor and an agent
\* that was constructed, to which files are uploaded and questions are put.
InitRag ==
    /\ Ready
    /\ \E k1 \in Keys, k2 \in Keys, k3 \in Keys :
          LET r == AgentInit(k1, k2, k3)
          IN  /\ ~r.raised
              /\ agent = r.agent
    /\ ctor_error = None
    /\ ret = NoRet
    /\ calls = <<>>
    /\ responses = <<>>
    /\ searches = <<>>
    /\ chunk_size = StoreChunkSize
    /\ chunk_overlap = StoreChunkOverlap
    /\ IdleProcessor /\ IdleSplit /\ IdleSearch

NextRag == ProcessFile \/ QueryWithContext \/ Return

SpecRag == InitRag /\ [][NextRag]_vars

\* The document store: an empty DocumentProcessor that files are uploaded
\* to, that is searched, listed and looked up in, and that is cleared.
Init ==
    /\ Ready
    /\ IdleGateway
    /\ chunk_size = StoreChunkSize
    /\ chunk_overlap = StoreChunkOverlap
    /\ IdleProcessor /\ IdleSplit /\ IdleSearch

Next ==
    \/ ProcessFile
    \/ SearchDocuments
    \/ GetAllDocuments
    \/ GetDocumentByName
    \/ ClearDocuments
    \/ Return

Spec == Init /\ [][Next]_vars

(***************************************************************************)
(*                      Properties of the gateway                          *)
(***************************************************************************)

\* The name a provider's error placeholder starts with.
ProviderDisplayName(p) ==
    CASE p = "openai" -> "OpenAI"
      [] p = "claude" -> "Claude"
      [] p = "grok" -> "Grok"

\* What a caller is to get from provider p when the round trip does net[p].
ExpectedText(p, net) ==
    IF net[p].ok THEN net[p].text
    ELSE ProviderDisplayName(p) \o " Error: " \o net[p].text

\* The network the call in last_op met.
LastNet == last_op[Len(last_op)]

ConfigurationOrder == <<"openai", "claude", "grok">>

\* The providers the agent holds a credential for.
HasCredential(p) ==
    CASE p = "openai" -> agent.openai_client # None
      [] p = "claude" -> agent.claude_client # None
      [] p = "grok" -> agent.grok_key # None

\* C1: no provider failure propagates out of query or query_all_models.
\* The call returns; the text of a provider whose round trip raised is
\* "<Provider> Error: <message>", and the text of every provider whose
\* round trip succeeded is its response, whatever the other providers did.
C1_ProviderFailureIsPlaceholder ==
    /\ last_op[1] = "query" =>
          /\ ~ret.raised
          /\ Len(calls) = 1
          /\ ret.value = ExpectedText(calls[1].provider, LastNet)
    /\ last_op[1] = "query_all_models" =>
          /\ ~ret.raised
          /\ \A i \in 1..Len(calls) :
                \E j \in 1..Len(responses) :
                    /\ responses[j].key = ResponseKey(calls[i].provider)
                    /\ responses[j].value = ExpectedText(calls[i].provider, LastNet)

\* C1's case: a query_all_models in which one provider failed and another
\* answered.
C1_Witness ==
    /\ last_op[1] = "query_all_models"
    /\ \E i, j \in 1..Len(calls) :
          /\ ~LastNet[calls[i].provider].ok
          /\ LastNet[calls[j].provider].ok

\* C2: query_all_models calls each configured provider exactly once, in
\* configuration order (openai, claude, grok), and its result holds exactly
\* one labeled entry per configured provider, in that order, and none for a
\* provider that is not configured, whichever calls fail.
C2_OneEntryPerConfiguredProvider ==
    last_op[1] = "query_all_models" =>
        LET configured == SelectSeq(ConfigurationOrder, HasCredential)
        IN  /\ configured # <<>>
            /\ Len(calls) = Len(configured)
            /\ \A i \in 1..Len(calls) :
                  calls[i] = [provider |-> configured[i], prompt |-> last_op[2]]
            /\ Len(responses) = Len(configured)
            /\ \A i \in 1..Len(responses) :
                  responses[i].key = ResponseKey(configured[i])
            /\ ret.value = CombinedHeader \o FormatResponses(responses, 1)

\* C2's case: a query_all_models of a gateway with two of the three
\* providers, both of which failed.
C2_Witness ==
    /\ last_op[1] = "query_all_models"
    /\ agent.available_models = <<"openai", "grok">>
    /\ ~LastNet["openai"].ok
    /\ ~LastNet["grok"].ok
    /\ Len(responses) = 2

\* C3: query dispatches to exactly one provider: the preferred one when it
\* is given and configured, otherwise the first configured provider in
\* configuration order; never to a provider without a credential, and an
\* invalid preference is no error.
C3_QueryDispatch ==
    last_op[1] = "query" =>
        LET configured == SelectSeq(ConfigurationOrder, HasCredential)
            preference == last_op[3]
            expected == IF preference \in ProviderNames /\ HasCredential(preference)
                        THEN preference
                        ELSE configured[1]
        IN  /\ calls = <<[provider |-> expected, prompt |-> last_op[2]]>>
            /\ HasCredential(calls[1].provider)
            /\ ~ret.raised
            /\ ret.value = ExpectedText(expected, LastNet)

\* C3's case: a query that prefers "provider-Z" on a gateway with claude
\* and grok, answered by claude.
C3_Witness ==
    /\ last_op[1] = "query"
    /\ last_op[3] = "provider-Z"
    /\ agent.available_models = <<"claude", "grok">>
    /\ calls[1].provider = "claude"
    /\ ret.value = "answer"

\* C4: construction fails with the configuration error exactly when every
\* credential is absent or empty; a provider is available exactly when its
\* credential is non-empty; with exactly one credential, that provider
\* serves a query with no preference.
C4_Configure ==
    /\ last_op[1] = "configure" =>
          LET key == [p \in ProviderNames |->
                         CASE p = "openai" -> last_op[2]
                           [] p = "claude" -> last_op[3]
                           [] p = "grok" -> last_op[4]]
              present(p) == key[p] \notin {None, ""}
          IN  /\ (ctor_error # None) <=> (\A p \in ProviderNames : ~present(p))
              /\ ctor_error # None =>
                    ctor_error = "At least one AI model API key must be provided"
              /\ ctor_error = None =>
                    /\ agent.built
                    /\ \A p \in ProviderNames :
                          /\ InSeq(p, agent.available_models) <=> present(p)
                          /\ HasCredential(p) <=> present(p)
    /\ (/\ last_op[1] = "query"
        /\ last_op[3] \in {None, ""}
        /\ Cardinality({p \in ProviderNames : HasCredential(p)}) = 1)
       => \A p \in ProviderNames : HasCredential(p) => calls = <<Call(p, last_op[2])>>

\* C4's case: a construction given no key but an empty one, which failed.
C4_Witness ==
    /\ last_op = <<"configure", None, "", None>>
    /\ ctor_error # None
    /\ ~agent.built

(***************************************************************************)
(*                      Properties of the chunker                          *)
(***************************************************************************)

\* The least integer that is at least a / b, for a >= 0 and b > 0.
CeilDiv(a, b) == (a + b - 1) \div b

\* The distance between the starts of two consecutive chunks.
Stride == chunk_size - chunk_overlap

Splitted == last_op = <<"split">>

\* C5, as the specification states it: split returns
\* ceil(max(0, len(T) - overlap) / (chunk_size - overlap)) chunks of a
\* non-empty T, and none of the empty text.
C5_CountAsStated ==
    Splitted =>
        Len(split_chunks) =
            IF Len(split_text) = 0 THEN 0
            ELSE CeilDiv(Max(0, Len(split_text) - chunk_overlap), Stride)

\* C5, amended: split returns ceil(len(T) / (chunk_size - overlap)) chunks,
\* one for every offset k * (chunk_size - overlap) below len(T): none of the
\* empty text, and 4 of 2500 characters under windows of 1000 overlapping
\* by 200.
C5_ChunkCount ==
    Splitted =>
        /\ Len(split_chunks) = CeilDiv(Len(split_text), Stride)
        /\ Len(split_text) = 0 => split_chunks = <<>>
        /\ (chunk_size = 1000 /\ chunk_overlap = 200 /\ Len(split_text) = 2500)
              => Len(split_chunks) = 4

\* C5's case: a text no longer than the overlap, of which split returns one
\* chunk where the stated formula gives none.
C5_Witness ==
    /\ Splitted
    /\ Len(split_text) > 0
    /\ Len(split_text) <= chunk_overlap
    /\ Len(split_chunks) = 1

\* The k-th chunk (k = 0, 1, ...) is text[k*s : k*s + chunk_size].
ChunkIsWindow(k) ==
    split_chunks[k + 1] =
        SubSeq(split_text, k * Stride + 1,
               Min(k * Stride + chunk_size, Len(split_text)))

\* A chunk is emitted for every k with k*s < len(text) and for no other.
ChunkPerOffset ==
    Len(split_chunks) =
        Cardinality({k \in 0..Len(split_text) : k * Stride < Len(split_text)})

\* C6, as the specification states it: the k-th chunk is the window at
\* k*s, one per offset below len(text), and every chunk before the last
\* has length exactly chunk_size.
C6_OnlyLastShortAsStated ==
    Splitted =>
        /\ ChunkPerOffset
        /\ \A k \in 0..(Len(split_chunks) - 1) : ChunkIsWindow(k)
        /\ \A k \in 0..(Len(split_chunks) - 2) :
              Len(split_chunks[k + 1]) = chunk_size

\* C6, amended: the k-th chunk is the window at k*s, one per offset below
\* len(text), of length min(chunk_size, len(text) - k*s): a chunk is
\* shorter than chunk_size exactly when its window passes the end of the
\* text, which with overlap = 0 only the final chunk does (2500 characters
\* at chunk_size 1000, overlap 200 give 4 chunks from offsets 0, 800, 1600,
\* 2400 with lengths 1000, 1000, 900, 100).
C6_ChunkWindows ==
    Splitted =>
        /\ ChunkPerOffset
        /\ \A k \in 0..(Len(split_chunks) - 1) :
              /\ ChunkIsWindow(k)
              /\ Len(split_chunks[k + 1]) =
                     Min(chunk_size, Len(split_text) - k * Stride)
              /\ Len(split_chunks[k + 1]) > 0
        /\ chunk_overlap = 0 =>
              \A k \in 0..(Len(split_chunks) - 2) :
                  Len(split_chunks[k + 1]) = chunk_size
        /\ (chunk_size = 1000 /\ chunk_overlap = 200 /\ Len(split_text) = 2500)
              => [k \in 1..Len(split_chunks) |-> Len(split_chunks[k])]
                     = <<1000, 1000, 900, 100>>

\* C6's case: the 2500 characters under the default windows, whose third
\* chunk of four is 900 characters long.
C6_Witness ==
    /\ Splitted
    /\ chunk_size = DefaultChunkSize
    /\ chunk_overlap = DefaultChunkOverlap
    /\ Len(split_text) = ScenarioLen
    /\ Len(split_chunks) = 4
    /\ Len(split_chunks[3]) < chunk_size

\* chunk[n:]
DropFirst(chunk, n) == SubSeq(chunk, n + 1, Len(chunk))

\* The first chunk followed by every later chunk without its first
\* `overlap` characters, from chunk i on.
RECURSIVE Reassemble(_, _, _)
Reassemble(chunks, overlap, i) ==
    IF i > Len(chunks) THEN <<>>
    ELSE (IF i = 1 THEN chunks[i] ELSE DropFirst(chunks[i], overlap))
         \o Reassemble(chunks, overlap, i + 1)

Reconstructs == Reassemble(split_chunks, chunk_overlap, 1) = split_text

\* What chunk k holds from the start of chunk k + 1 on (chunks from 1).
SharedWithNext(k) == DropFirst(split_chunks[k], Stride)

\* C7, as the specification states it: the chunks reconstruct the text,
\* and consecutive chunks share exactly `overlap` characters.
C7_ExactOverlapAsStated ==
    Splitted =>
        /\ Reconstructs
        /\ \A k \in 1..(Len(split_chunks) - 1) :
              /\ Len(SharedWithNext(k)) = chunk_overlap
              /\ SharedWithNext(k) = SubSeq(split_chunks[k + 1], 1, chunk_overlap)

\* C7, amended: the chunks reconstruct the text, and consecutive chunks
\* share the first min(overlap, length of the later chunk) characters of
\* the later chunk: exactly `overlap` unless the later chunk is shorter
\* than that.
C7_Reconstruction ==
    Splitted =>
        /\ Reconstructs
        /\ \A k \in 1..(Len(split_chunks) - 1) :
              /\ Len(SharedWithNext(k)) =
                     Min(chunk_overlap, Len(split_chunks[k + 1]))
              /\ SharedWithNext(k) =
                     SubSeq(split_chunks[k + 1], 1, Len(SharedWithNext(k)))

\* C7's case: three chunks or more under an overlap of 2, the last of them
\* shorter than the overlap.
C7_Witness ==
    /\ Splitted
    /\ chunk_overlap = 2
    /\ Len(split_chunks) >= 3
    /\ Len(split_chunks[Len(split_chunks)]) < chunk_overlap
    /\ Reconstructs

(***************************************************************************)
(*                       Properties of the search                          *)
(***************************************************************************)

Searched == last_op = <<"search">>

\* The terms of a query, as the places <<i, j>> of its maximal runs of
\* non-whitespace characters.
TermRuns(q) ==
    {run \in (1..Len(q)) \X (1..Len(q)) :
        /\ run[1] <= run[2]
        /\ \A k \in run[1]..run[2] : ~IsSpace(q[k])
        /\ run[1] = 1 \/ IsSpace(q[run[1] - 1])
        /\ run[2] = Len(q) \/ IsSpace(q[run[2] + 1])}

\* The number of terms of the lower-cased query, repetitions counted, that
\* occur in the lower-cased chunk.
TermScore(q, chunk) ==
    Cardinality({run \in TermRuns(q) :
        IsSubstring(SubSeq(Lower(q), run[1], run[2]), Lower(chunk))})

\* The chunks of the store, as <<document, chunk>> places counted from 1.
StoredChunks ==
    UNION {{<<d, i>> : i \in 1..Len(processed_documents[d].chunk_list)} :
              d \in 1..Len(processed_documents)}

ChunkAt(h) == processed_documents[h[1]].chunk_list[h[2]]

\* The score of every stored chunk under the last query.
Scores == [h \in StoredChunks |-> TermScore(search_query, ChunkAt(h))]

\* The chunks that score above 0.
HitsOf(score) == {h \in DOMAIN score : score[h] > 0}

Hits == HitsOf(Scores)

\* The chunk reference search returns for a stored chunk.
Reference(h) ==
    [filename |-> processed_documents[h[1]].filename,
     chunk_index |-> h[2] - 1,
     content |-> ChunkAt(h),
     relevance |-> TermScore(search_query, ChunkAt(h))]

\* (document insertion order, chunk index) order.
ScannedBefore(g, h) == g[1] < h[1] \/ (g[1] = h[1] /\ g[2] < h[2])

\* g ranks before h: by score descending, then in scan order.
RanksBefore(score, g, h) ==
    score[g] > score[h] \/ (score[g] = score[h] /\ ScannedBefore(g, h))

\* C8: search never returns a chunk of score 0, the score being the number
\* of whitespace-separated terms of the lower-cased query, repetitions
\* counted, that occur in the lower-cased chunk; every result is a stored
\* chunk; and a query with no terms has an empty result.
C8_NoZeroScore ==
    Searched =>
        /\ \A j \in 1..Len(results) :
              /\ results[j].relevance > 0
              /\ results[j].relevance = TermScore(search_query, results[j].content)
              /\ \E h \in StoredChunks : results[j] = Reference(h)
        /\ TermRuns(search_query) = {} => results = <<>>

\* C8's case: a query with a term, searched in a store with a chunk that
\* holds it and a chunk that does not; the result has room left for the
\* second and does not hold it.
C8_Witness ==
    /\ Searched
    /\ TermRuns(search_query) # {}
    /\ results # <<>>
    /\ Len(results) < search_top_k
    /\ \E h \in StoredChunks : TermScore(search_query, ChunkAt(h)) = 0

\* C9: the result has min(top_k, number of chunks of score > 0) entries,
\* sorted by score descending and, among equal scores, in (document
\* insertion order, chunk index) order, and no chunk left out ranks before
\* a returned one: the entry at place r is the chunk that r - 1 chunks
\* rank before.
C9_TopKRanked ==
    Searched =>
        LET score == Scores
            hits == HitsOf(score)
        IN
        /\ Len(results) = Min(search_top_k, Cardinality(hits))
        /\ \A h \in hits :
              LET before == Cardinality({g \in hits : RanksBefore(score, g, h)})
              IN  before < Len(results) => results[before + 1] = Reference(h)
        /\ \A j \in 1..(Len(results) - 1) :
              results[j].relevance >= results[j + 1].relevance

\* C9's case: more chunks score above 0 than top_k, the first of them in
\* scan order is outranked by a later one, and two chunks tie for the last
\* place of the result.
C9_Witness ==
    /\ Searched
    /\ Len(results) = 2
    /\ Cardinality(Hits) > search_top_k
    /\ results[1].relevance > results[2].relevance
    /\ \E h \in Hits :
          /\ \A g \in Hits : g = h \/ ScannedBefore(h, g)
          /\ Reference(h) # results[1]
    /\ Cardinality({h \in Hits : Reference(h).relevance = results[2].relevance}) >= 2

SingleTerm == Cardinality(TermRuns(search_query)) = 1

\* The term of a single-term query, lower-cased.
TheTerm ==
    LET run == CHOOSE r \in TermRuns(search_query) : TRUE
    IN  SubSeq(Lower(search_query), run[1], run[2])

\* C10, as the specification states it: for a single-term query the result
\* holds only chunks that contain the term, and a chunk in which the term
\* occurs more times is never placed after one in which it occurs fewer
\* times.
C10_ByOccurrencesAsStated ==
    (Searched /\ SingleTerm) =>
        /\ \A j \in 1..Len(results) :
              Occurrences(TheTerm, Lower(results[j].content)) > 0
        /\ \A i, j \in 1..Len(results) :
              i < j => Occurrences(TheTerm, Lower(results[i].content))
                           >= Occurrences(TheTerm, Lower(results[j].content))

\* C10, amended: for a single-term query the result holds only chunks that
\* contain the term, each with score 1 however many times the term occurs
\* in it, so the result is the first top_k chunks that contain the term in
\* (document insertion order, chunk index) order, not by occurrence count.
C10_SingleTermInScanOrder ==
    (Searched /\ SingleTerm) =>
        /\ \A j \in 1..Len(results) :
              /\ Occurrences(TheTerm, Lower(results[j].content)) > 0
              /\ results[j].relevance = 1
        /\ LET hits == Hits
           IN  /\ Len(results) = Min(search_top_k, Cardinality(hits))
               /\ \A h \in hits :
                     LET before == Cardinality({g \in hits : ScannedBefore(g, h)})
                     IN  before < Len(results) => results[before + 1] = Reference(h)

\* C10's case: a single-term query whose result places a chunk with one
\* occurrence of the term before a chunk of another document with two.
C10_Witness ==
    /\ Searched
    /\ SingleTerm
    /\ Len(results) = 2
    /\ results[1].filename # results[2].filename
    /\ Occurrences(TheTerm, Lower(results[1].content)) = 1
    /\ Occurrences(TheTerm, Lower(results[2].content)) = 2

(***************************************************************************)
(*                   Properties of the chunking loop                       *)
(***************************************************************************)

\* C14, as stated: a configuration with chunk_overlap >= chunk_size is
\* rejected, so under it a split of a non-empty text makes no iteration of
\* the loop; and a split never makes more iterations than the text has
\* characters, which bounds the loop under every configuration.
C14_InvalidConfigRejectedAsStated ==
    last_op = <<"while">> =>
        /\ (chunk_overlap >= chunk_size /\ split_text # <<>>) =>
              split_chunks = <<>>
        /\ Len(split_chunks) <= Len(split_text)

(***************************************************************************)
(*                  Properties of the document store                       *)
(***************************************************************************)

\* The part of a file name after its last dot, in lower case; the whole
\* name when it has no dot.
NamedExtension(name) ==
    LET dots == {i \in 1..Len(name) : name[i] = "."}
        last == IF dots = {} THEN 0
                ELSE CHOOSE i \in dots : \A j \in dots : j <= i
    IN  Lower(SubSeq(name, last + 1, Len(name)))

\* C11: an ingest that fails returns a failure result and leaves the store
\* exactly as it was.  A file of an unsupported type fails with an error
\* that names its extension; a file of a supported type whose extraction or
\* decoding raises fails with that exception's message; and whenever
\* process_file reports a failure no document has been added, removed or
\* changed.
C11_FailedIngestKeepsStore ==
    [][last_op'[1] = "process_file" =>
          LET uploaded_file == last_op'[2]
              extension == NamedExtension(uploaded_file.name)
              unsupported == extension \notin SupportedExtensions
              unreadable == ~uploaded_file.data.ok
          IN  /\ unsupported =>
                    process_result' =
                        [success |-> FALSE,
                         error |-> <<"Unsupported file type: ">> \o extension]
              /\ (~unsupported /\ unreadable) =>
                    process_result' =
                        [success |-> FALSE, error |-> uploaded_file.data.error]
              /\ (~unsupported /\ ~unreadable) => process_result'.success
              /\ ~process_result'.success =>
                    processed_documents' = processed_documents]_vars

\* C11's case: an undecodable file uploaded after a document was stored,
\* which failed and left that one document in the store.
C11_Witness ==
    /\ last_op[1] = "process_file"
    /\ ~last_op[2].data.ok
    /\ NamedExtension(last_op[2].name) = <<"t", "x", "t">>
    /\ ~process_result.success
    /\ Len(processed_documents) = 1

\* The call in last_op is a get_all_documents.
Listed == last_op = <<"get_all_documents">>

\* C12, as stated: the listing holds one entry per stored document, in
\* insertion order, whose chunk count is the number of the document's
\* chunks and whose preview is the document's text itself when that has at
\* most 200 characters, and its first 200 characters followed by "..."
\* when it has more.
C12_PreviewAsStated ==
    Listed =>
        /\ Len(listing) = Len(processed_documents)
        /\ \A i \in 1..Len(listing) :
              LET doc == processed_documents[i]
              IN  /\ listing[i].filename = doc.filename
                  /\ listing[i].file_type = doc.file_type
                  /\ listing[i].chunks = Len(doc.chunk_list)
                  /\ listing[i].preview =
                        IF Len(doc.text) > ListPreviewLen
                        THEN SubSeq(doc.text, 1, ListPreviewLen) \o Ellipsis
                        ELSE doc.text

\* The call in last_op is a clear_documents.
Cleared == last_op[1] = "clear"

\* The call in last_op is a get_document_by_name.
Looked == last_op[1] = "get_document_by_name"

\* C13: clear discards every stored document and is idempotent.  After a
\* clear, of a store with documents or of an empty one, the store is empty,
\* a further clear leaves it as it is, and every upload is processed as by
\* a new DocumentProcessor of the same configuration; and on the empty
\* store get_all_documents returns no entry, get_document_by_name returns
\* None for every filename and search_documents returns no result for
\* every query.
C13_ClearIsIdempotent ==
    /\ Cleared =>
          /\ processed_documents = <<>>
          /\ clear_documents(processed_documents) = processed_documents
          /\ \A uploaded_file \in UploadedFiles :
                process_file(processed_documents, uploaded_file,
                             chunk_size, chunk_overlap)
                    = process_file(<<>>, uploaded_file,
                                   StoreChunkSize, StoreChunkOverlap)
    /\ processed_documents = <<>> =>
          /\ Listed => listing = <<>>
          /\ Looked => found_doc = NoDocument
          /\ Searched => results = <<>>

\* C13's case: a clear of a store that held documents.
C13_Witness ==
    /\ Cleared
    /\ last_op[2] > 0
    /\ processed_documents = <<>>

\* Every stored document is as process_file made it: its chunk list is the
\* split of its text and its chunk count the length of that list.
StoredAsSplit ==
    \A i \in 1..Len(processed_documents) :
        LET doc == processed_documents[i]
        IN  /\ doc.chunk_list
                  = split_into_chunks(doc.text, chunk_size, chunk_overlap)
            /\ doc.chunks = Len(doc.chunk_list)

\* A get_document_by_name returns the earliest stored document of the name
\* it was given, and None when there is none.
FindsEarliest ==
    Looked =>
        LET matches == {i \in 1..Len(processed_documents) :
                           processed_documents[i].filename = last_op[2]}
        IN  IF matches = {} THEN found_doc = NoDocument
            ELSE \E i \in matches :
                    /\ \A j \in matches : i <= j
                    /\ found_doc = SomeDocument(processed_documents[i])

\* What one call does to the store: a process_file that reports success
\* appends one document of the uploaded file's name behind the documents
\* there are, which stay as they are; a clear_documents empties the store;
\* every other call, a failed process_file included, leaves the store as it
\* is.
StoreStep ==
    LET op == last_op'
        before == processed_documents
        after == processed_documents'
    IN  IF op[1] = "process_file" /\ process_result'.success
        THEN /\ Len(after) = Len(before) + 1
             /\ SubSeq(after, 1, Len(before)) = before
             /\ after[Len(after)].filename = op[2].name
        ELSE IF op[1] = "clear" THEN after = <<>>
        ELSE after = before

\* C15: the store holds exactly the documents of the successful ingests
\* since the last clear, one per successful ingest in ingestion order,
\* documents of the same filename side by side, of which
\* get_document_by_name returns the earliest; no call changes a stored
\* document, whose chunk list is the split of its text and whose chunk
\* count is the length of that list.
C15_StoreHoldsIngests ==
    /\ [](StoredAsSplit /\ FindsEarliest)
    /\ [][StoreStep]_vars

\* C15's case: two documents of one filename and different texts are
\* stored, and a get_document_by_name of that filename returned the first.
C15_Witness ==
    /\ Looked
    /\ Len(processed_documents) = 2
    /\ processed_documents[1].filename = last_op[2]
    /\ processed_documents[2].filename = last_op[2]
    /\ processed_documents[1].text # processed_documents[2].text
    /\ found_doc = SomeDocument(processed_documents[1])

(***************************************************************************)
(*                     Properties of the RAG system                        *)
(***************************************************************************)

\* The call in last_op is a query_with_context.
Asked == last_op[1] = "query_with_context"

SourceNumbers == <<"1", "2", "3", "4", "5", "6", "7", "8", "9">>

\* The first n chunks of hits, each under its "[Source i: filename]" line.
RECURSIVE Sources(_, _)
Sources(hits, n) ==
    IF n = 0 THEN <<>>
    ELSE Sources(hits, n - 1)
            \o <<"[Source ", SourceNumbers[n], ": ">> \o hits[n].filename
            \o <<"]\n">> \o hits[n].content \o <<"\n\n">>

\* C16: a query_with_context makes one search_documents(query, top_k) on
\* the store as it is and then exactly one provider call, to the first
\* configured provider in configuration order, whether or not the search
\* found a chunk; the prompt of that call holds the chunks the search
\* returned, in its order, as Source 1 .. n between the preamble and the
\* question; the call returns that provider's text or error placeholder;
\* and it leaves the store as it is.
C16_OneSearchThenOneSend ==
    /\ [](Asked =>
            LET query_text == last_op[2]
                top_k == last_op[3]
                hits == search_documents(processed_documents, query_text, top_k)
                default == SelectSeq(ConfigurationOrder, HasCredential)[1]
                prompt == ContextHeader \o Sources(hits, Len(hits))
                              \o QuestionLabel \o query_text \o Instruction
            IN  /\ searches = <<SearchCall(query_text, top_k, hits)>>
                /\ Len(hits) <= top_k
                /\ calls = <<Call(default, prompt)>>
                /\ ~ret.raised
                /\ ret.value = ExpectedText(default, LastNet))
    /\ [][last_op'[1] = "query_with_context" =>
            processed_documents' = processed_documents]_vars

\* C16's case: a question put to a store that holds a document, whose
\* search found no chunk, and which went to the one provider all the same.
C16_Witness ==
    /\ Asked
    /\ processed_documents # <<>>
    /\ searches[1].results = <<>>
    /\ Len(calls) = 1
    /\ agent.available_models = <<"claude", "grok">>
    /\ calls[1].provider = "claude"

=============================================================================
